---- MODULE Spec2Model ----
(***************************************************************************)
(* A model of pwnlib.elf.ELF (src/pwnlib/elf.py): the address-space model  *)
(* of a loaded ELF image, its derived symbol / PLT / GOT maps, the         *)
(* offset <-> vaddr translation, search, raw read / write through the      *)
(* copy-on-write mmap, and the cascading base-address setter.              *)
(*                                                                         *)
(* The decoded structures come from the elftools parser, which is not part *)
(* of the repository.  The model keeps them the way elf.py uses them: the  *)
(* catalog holds one header per segment and per section, and the writes    *)
(* the setter makes to header fields (lines 91-95) stay in the catalog.    *)
(* Python integers are unbounded, so addresses are plain integers.         *)
(* Python sequences are 0-based; the model's sequences are 1-based, and    *)
(* every index taken from a header (sh_info, sh_link, r_info_sym, file     *)
(* offsets) is used as index + 1.                                          *)
(***************************************************************************)
EXTENDS Integers, Sequences, FiniteSets, TLC

\* ---------------------------------------------------------------- bounds

\* New base addresses handed to the setter are 0..MaxBase.
MaxBase == 2
\* Addresses handed to read / write are 0..MaxAddr.
MaxAddr == 8
\* Longest data written, longest pattern searched, largest count read.
MaxLen == 2

\* ------------------------------------------------------------- constants

\* elftools.elf.constants.P_FLAGS.PF_W, tested by writable_segments.
PF_W == 2

Bytes == {0, 1}

NewBases == 0..MaxBase
Addrs == 0..MaxAddr
Counts == 0..MaxLen
Strings == UNION {[1..n -> Bytes] : n \in 0..MaxLen}
Patterns == Strings \ {<<>>}

\* ------------------------------------------------------- python helpers

\* None, and a value that is not None, for the results that are
\* "an integer or None".
None == <<>>
Some(v) == <<v>>
IsNone(r) == r = <<>>
Val(r) == r[1]

\* dict assignment m[k] = v.
DictSet(m, k, v) == [x \in DOMAIN m \cup {k} |-> IF x = k THEN v ELSE m[x]]

\* {k: update(v) for k, v in m.items()} with update = lambda x: x + d.
DictShift(m, d) == [k \in DOMAIN m |-> m[k] + d]

SetMin(S) == CHOOSE x \in S : \A y \in S : x <= y

\* ------------------------------------------------------------ the mmap

\* mmap.seek(where): a position outside 0..size raises ValueError and
\* leaves the position alone.
mmap_seek(m, where) ==
    IF where < 0 \/ where > Len(m.buf)
    THEN [raised |-> TRUE, m |-> m]
    ELSE [raised |-> FALSE, m |-> [m EXCEPT !.pos = where]]

\* mmap.read(n): the bytes from the position, at most n and at most what is
\* left, and the position moved past them.
mmap_read(m, n) ==
    LET left == Len(m.buf) - m.pos
        k    == IF n < left THEN n ELSE left
    IN [data |-> SubSeq(m.buf, m.pos + 1, m.pos + k),
        m    |-> [m EXCEPT !.pos = m.pos + k]]

\* mmap.write(data): data that does not fit before the end raises
\* ValueError and writes nothing; otherwise the bytes replace the buffer's
\* and the position moves past them.
mmap_write(m, data) ==
    IF m.pos + Len(data) > Len(m.buf)
    THEN [raised |-> TRUE, m |-> m]
    ELSE [raised |-> FALSE,
          m |-> [buf |-> [i \in 1..Len(m.buf) |->
                            IF i > m.pos /\ i <= m.pos + Len(data)
                            THEN data[i - m.pos] ELSE m.buf[i]],
                 pos |-> m.pos + Len(data)]]

\* ------------------------------------------------------------ the files

Seg(off, fsz, va, msz, fl) ==
    [p_offset |-> off, p_filesz |-> fsz, p_vaddr |-> va, p_memsz |-> msz,
     p_flags |-> fl]

Sec(nm, ty, addr, info, link, align, rels, syms) ==
    [name |-> nm, type |-> ty, sh_addr |-> addr, sh_info |-> info,
     sh_link |-> link, sh_addralign |-> align, relocs |-> rels,
     symbols |-> syms]

Rel(off, sym) == [r_offset |-> off, r_info_sym |-> sym]
Sym(nm, v) == [name |-> nm, st_value |-> v]

SecNull == Sec("", "NULL", 0, 0, 0, 0, <<>>, <<>>)
SecText == Sec(".text", "PROGBITS", 1, 0, 0, 1, <<>>, <<>>)
SecPlt  == Sec(".plt", "PROGBITS", 1, 0, 0, 2, <<>>, <<>>)
SecDynsym ==
    Sec(".dynsym", "SYMTAB", 0, 0, 0, 1, <<>>,
        <<Sym("", 0), Sym("read", 0), Sym("exit", 0)>>)
SecSymtab ==
    Sec(".symtab", "SYMTAB", 0, 0, 0, 1, <<>>,
        <<Sym("", 0), Sym("main", 1), Sym("exit", 0), Sym("buf", 4)>>)
\* .rel.plt of section 1 (.plt), symbols in section 3 (.dynsym): the first
\* relocation is exit's (symbol 2), the second read's (symbol 1).
SecRelPlt ==
    Sec(".rel.plt", "REL", 0, 1, 3, 1,
        <<Rel(5, 2), Rel(6, 1)>>, <<>>)
\* The same with a third relocation that names exit once more.
SecRelPltDup ==
    Sec(".rel.plt", "REL", 0, 1, 3, 1,
        <<Rel(5, 2), Rel(6, 1), Rel(7, 2)>>, <<>>)

\* Text (r-x) is file byte 0 at address 1; data (rw-) is file bytes 1..2 at
\* addresses 3..4, followed by a .bss that makes the memory size 4.  The
\* file ranges touch, and memsz > filesz in the data segment.
SegText == Seg(0, 1, 1, 1, 5)
SegData == Seg(1, 2, 3, 4, 6)
\* PT_GNU_STACK: no file content, virtual address 0.
SegStack == Seg(0, 0, 0, 0, 6)

\* A dynamically linked executable.
ImgDyn ==
    [name |-> "dyn",
     data |-> <<1, 0, 1>>,
     segments |-> <<SegText, SegData>>,
     sections |-> <<SecNull, SecPlt, SecRelPlt, SecDynsym, SecSymtab>>]
\* The same with a PT_GNU_STACK segment and a repeated relocation.
ImgStack ==
    [name |-> "stack",
     data |-> <<0, 1, 1>>,
     segments |-> <<SegText, SegStack, SegData>>,
     sections |-> <<SecNull, SecPlt, SecRelPltDup, SecDynsym, SecSymtab>>]
\* A statically linked executable: no .plt, no relocation section.
ImgStatic ==
    [name |-> "static",
     data |-> <<1, 0, 1>>,
     segments |-> <<SegText, SegData>>,
     sections |-> <<SecNull, SecText, SecSymtab>>]
\* A .plt with no relocation section whose sh_info names it.
ImgNoRel ==
    [name |-> "norel",
     data |-> <<1, 0, 1>>,
     segments |-> <<SegText, SegData>>,
     sections |-> <<SecNull, SecPlt, SecSymtab>>]

Images == {ImgDyn, ImgStack, ImgStatic, ImgNoRel}

\* ------------------------------------------------- ELF: the derived maps

\* ELFFile.get_section_by_name: the position of the first section of that
\* name, 0 for None.
get_section_by_name(sections, name) ==
    IF \E i \in 1..Len(sections) : sections[i].name = name
    THEN SetMin({i \in 1..Len(sections) : sections[i].name = name})
    ELSE 0

\* list.index(x): the 0-based position of the first element equal to x.
\* Called only when one is.
list_index(sections, x) ==
    SetMin({i \in 1..Len(sections) : sections[i] = x}) - 1

\* got_plt_loop with the PLT address scaled by the relocation's position in
\* the table instead of sym_idx.
RECURSIVE got_plt_loop_by_position(_, _, _, _, _)
got_plt_loop_by_position(rels, i, symtab, pltsec, acc) ==
    IF i > Len(rels) THEN acc
    ELSE LET sym_idx == rels[i].r_info_sym
         IN IF acc.raised \/ symtab.type # "SYMTAB"
               \/ sym_idx + 1 > Len(symtab.symbols)
            THEN [acc EXCEPT !.raised = TRUE]
            ELSE LET name == symtab.symbols[sym_idx + 1].name
                 IN got_plt_loop_by_position(rels, i + 1, symtab, pltsec,
                      [raised |-> FALSE,
                       got |-> DictSet(acc.got, name, rels[i].r_offset),
                       plt |-> DictSet(acc.plt, name,
                                 pltsec.sh_addr
                                 + (i - 1) * pltsec.sh_addralign)])

\* The loop of lines 158-164 from relocation i on.  sym_idx names the
\* symbol, and it is sym_idx that scales the PLT address.
RECURSIVE got_plt_loop(_, _, _, _, _)
got_plt_loop(rels, i, symtab, pltsec, acc) ==
    IF i > Len(rels) THEN acc
    ELSE LET sym_idx == rels[i].r_info_sym
         IN IF acc.raised \/ symtab.type # "SYMTAB"
               \/ sym_idx + 1 > Len(symtab.symbols)
            THEN [acc EXCEPT !.raised = TRUE]
            ELSE LET name == symtab.symbols[sym_idx + 1].name
                 IN got_plt_loop(rels, i + 1, symtab, pltsec,
                      [raised |-> FALSE,
                       got |-> DictSet(acc.got, name, rels[i].r_offset),
                       plt |-> DictSet(acc.plt, name,
                                 pltsec.sh_addr
                                 + sym_idx * pltsec.sh_addralign)])

\* ELF._populate_got_plt.  raised: the method raised (ValueError from
\* list.index(None), StopIteration from next(), IndexError from
\* sections[sh_link], AttributeError from a section that is no relocation
\* section or no symbol table) and the constructor with it.
populate_got_plt(sections) ==
    LET p == get_section_by_name(sections, ".plt")
        failed == [raised |-> TRUE, got |-> <<>>, plt |-> <<>>]
    IN IF Len(sections) = 0 THEN failed      \* next() of nothing
       ELSE IF p = 0 THEN failed             \* sections.index(None)
       ELSE LET idx  == list_index(sections, sections[p])
                hits == {i \in 1..Len(sections) : sections[i].sh_info = idx}
            IN IF hits = {} THEN failed      \* next() finds none
               ELSE LET rel_plt == sections[SetMin(hits)]
                    IN IF rel_plt.sh_link + 1 > Len(sections)
                          \/ rel_plt.type # "REL"
                       THEN failed
                       ELSE got_plt_loop(rel_plt.relocs, 1,
                              sections[rel_plt.sh_link + 1], sections[p],
                              [raised |-> FALSE, got |-> <<>>, plt |-> <<>>])

\* The inner loop of _populate_symbols over one symbol table.
RECURSIVE symbols_of_table(_, _, _)
symbols_of_table(syms, j, acc) ==
    IF j > Len(syms) THEN acc
    ELSE symbols_of_table(syms, j + 1,
           IF syms[j].st_value = 0 THEN acc
           ELSE DictSet(acc, syms[j].name, syms[j].st_value))

\* The outer loop of _populate_symbols from section i on.
RECURSIVE symbols_loop(_, _, _)
symbols_loop(sections, i, acc) ==
    IF i > Len(sections) THEN acc
    ELSE symbols_loop(sections, i + 1,
           IF sections[i].type # "SYMTAB" THEN acc
           ELSE symbols_of_table(sections[i].symbols, 1, acc))

\* ELF._populate_symbols: the PLT first, then every non-zero symbol.
populate_symbols(sections, plt) == symbols_loop(sections, 1, plt)

\* filter(bool, (s.header.p_vaddr for s in self.segments)), as a set.
nonzero_vaddrs(segments) ==
    {segments[i].p_vaddr : i \in {j \in 1..Len(segments) :
                                    segments[j].p_vaddr # 0}}

\* ELF.__init__ on the file img, the parser leaving the stream at pos.
\* raised: _populate_got_plt raised, or min() of no address did.  The
\* libs dictionary (ldd, a subprocess) is no part of the address model.
ELF_init(img, pos) ==
    LET gp == populate_got_plt(img.sections)
        nz == nonzero_vaddrs(img.segments)
        blank == [segments |-> img.segments, sections |-> img.sections,
                  symbols |-> <<>>, plt |-> <<>>, got |-> <<>>,
                  address |-> 0,
                  stream |-> [buf |-> img.data, pos |-> pos]]
    IN IF gp.raised \/ nz = {}
       THEN [raised |-> TRUE, self |-> blank]
       ELSE [raised |-> FALSE,
             self |-> [blank EXCEPT
                         !.got = gp.got,
                         !.plt = gp.plt,
                         !.symbols = populate_symbols(img.sections, gp.plt),
                         !.address = SetMin(nz)]]

\* ------------------------------------------------- ELF: the base address

\* setter_delta taking the new base itself for the delta.
setter_delta_is_new(self, new) == new

\* setter_sections leaving the sections that are not loaded (sh_addr 0).
setter_sections_loaded_only(self, delta) ==
    [self EXCEPT !.sections = [i \in 1..Len(self.sections) |->
                    IF self.sections[i].sh_addr = 0 THEN self.sections[i]
                    ELSE [self.sections[i] EXCEPT !.sh_addr = @ + delta]]]

\* The statements of the address setter, lines 88-101, one operator each;
\* delta is computed once, from the base the object has on entry.
setter_delta(self, new) == new - self.address

\* for segment in self.segments: segment.header.p_vaddr += delta
setter_segments(self, delta) ==
    [self EXCEPT !.segments = [i \in 1..Len(self.segments) |->
                    [self.segments[i] EXCEPT !.p_vaddr = @ + delta]]]

\* for section in self.sections: section.header.sh_addr += delta
setter_sections(self, delta) ==
    [self EXCEPT !.sections = [i \in 1..Len(self.sections) |->
                    [self.sections[i] EXCEPT !.sh_addr = @ + delta]]]

setter_symbols(self, delta) ==
    [self EXCEPT !.symbols = DictShift(self.symbols, delta)]

setter_plt(self, delta) == [self EXCEPT !.plt = DictShift(self.plt, delta)]

setter_got(self, delta) == [self EXCEPT !.got = DictShift(self.got, delta)]

\* self._address = update(self.address)
setter_address(self, delta) ==
    [self EXCEPT !.address = self.address + delta]

\* The address setter as one call.
address_setter(self, new) ==
    LET delta == setter_delta(self, new)
    IN setter_address(
         setter_got(
           setter_plt(
             setter_symbols(
               setter_sections(
                 setter_segments(self, delta), delta), delta), delta),
           delta), delta)

\* ------------------------------------------------ ELF: the translations

\* ELF.writable_segments: the segments with PF_W set, in order.
IsWritable(seg) == (seg.p_flags \div PF_W) % 2 = 1
writable_segments(self) == SelectSeq(self.segments, IsWritable)

\* ELF.offset_to_vaddr: the first segment whose file range, both ends
\* included, holds the offset.
offset_to_vaddr(self, offset) ==
    LET hits == {i \in 1..Len(self.segments) :
                   /\ self.segments[i].p_offset <= offset
                   /\ offset <= self.segments[i].p_offset
                                + self.segments[i].p_filesz}
    IN IF hits = {} THEN None
       ELSE LET s == self.segments[SetMin(hits)]
            IN Some(s.p_vaddr + (offset - s.p_offset))

\* ELF.vaddr_to_offset: the first segment whose memory range, both ends
\* included, holds the address.
vaddr_to_offset(self, address) ==
    LET hits == {i \in 1..Len(self.segments) :
                   /\ self.segments[i].p_vaddr <= address
                   /\ address <= self.segments[i].p_vaddr
                                 + self.segments[i].p_memsz}
    IN IF hits = {} THEN None
       ELSE LET s == self.segments[SetMin(hits)]
            IN Some(s.p_offset + (address - s.p_vaddr))

\* ------------------------------------------------------- ELF: search

\* str.find(s, offset): the lowest position from offset on where s
\* occurs in data, -1 when there is none.
RECURSIVE str_find(_, _, _)
str_find(data, s, offset) ==
    IF offset + Len(s) > Len(data) THEN -1
    ELSE IF SubSeq(data, offset + 1, offset + Len(s)) = s THEN offset
    ELSE str_find(data, s, offset + 1)

\* search_segment yielding the offset in the segment, not the address.
RECURSIVE search_segment_offsets(_, _, _, _, _)
search_segment_offsets(addr, data, s, offset, acc) ==
    LET found == str_find(data, s, offset)
    IN IF found = -1 THEN acc
       ELSE search_segment_offsets(addr, data, s, found + 1,
                                   Append(acc, found))

\* The while loop of lines 189-194 on one segment, from offset on.
RECURSIVE search_segment(_, _, _, _, _)
search_segment(addr, data, s, offset, acc) ==
    LET found == str_find(data, s, offset)
    IN IF found = -1 THEN acc
       ELSE search_segment(addr, data, s, found + 1,
                           Append(acc, addr + found))

\* Segment.data(): seek to p_offset, read p_filesz bytes.  It leaves the
\* stream where the read ended.
segment_data(stream, seg) ==
    LET sk == mmap_seek(stream, seg.p_offset)
    IN IF sk.raised THEN [raised |-> TRUE, data |-> <<>>, m |-> stream]
       ELSE LET rd == mmap_read(sk.m, seg.p_filesz)
            IN [raised |-> FALSE, data |-> rd.data, m |-> rd.m]

\* The for loop of lines 185-194 from segment i of segs on.
RECURSIVE search_loop(_, _, _, _, _)
search_loop(segs, i, s, stream, acc) ==
    IF i > Len(segs) THEN [raised |-> FALSE, addrs |-> acc, m |-> stream]
    ELSE LET d == segment_data(stream, segs[i])
         IN IF d.raised THEN [raised |-> TRUE, addrs |-> acc, m |-> stream]
            ELSE search_loop(segs, i + 1, s, d.m,
                   search_segment(segs[i].p_vaddr, d.data, s, 0, acc))

\* ELF.search, run to the end of the generator: the addresses it yields,
\* in order, and the object afterwards.
search(self, s, non_writable) ==
    LET segments == IF non_writable THEN self.segments
                    ELSE writable_segments(self)
        r == search_loop(segments, 1, s, self.stream, <<>>)
    IN [raised |-> r.raised, addrs |-> r.addrs,
        self |-> [self EXCEPT !.stream = r.m]]

\* ------------------------------------------------- ELF: read and write

\* read without the seek back to the old position.
read_without_restore(self, address, count) ==
    LET offset == vaddr_to_offset(self, address)
    IN IF IsNone(offset)
       THEN [kind |-> "None", data |-> <<>>, self |-> self]
       ELSE LET sk == mmap_seek(self.stream, Val(offset))
            IN IF sk.raised
               THEN [kind |-> "raised", data |-> <<>>,
                     self |-> [self EXCEPT !.stream = sk.m]]
               ELSE LET rd == mmap_read(sk.m, count)
                    IN [kind |-> "bytes", data |-> rd.data,
                        self |-> [self EXCEPT !.stream = rd.m]]

\* ELF.read.  ret: kind "None" (unmapped), "bytes" with the data, or
\* "raised" when the seek to the offset raised.
read(self, address, count) ==
    LET offset == vaddr_to_offset(self, address)
    IN IF IsNone(offset)
       THEN [kind |-> "None", data |-> <<>>, self |-> self]
       ELSE LET old == self.stream.pos
                sk  == mmap_seek(self.stream, Val(offset))
            IN IF sk.raised
               THEN [kind |-> "raised", data |-> <<>>,
                     self |-> [self EXCEPT !.stream = sk.m]]
               ELSE LET rd == mmap_read(sk.m, count)
                        bk == mmap_seek(rd.m, old)
                    IN [kind |-> "bytes", data |-> rd.data,
                        self |-> [self EXCEPT !.stream = bk.m]]

\* write without the seek to the offset: the data goes where the stream is.
write_without_seek(self, address, data) ==
    LET offset == vaddr_to_offset(self, address)
    IN IF IsNone(offset)
       THEN [kind |-> "None", mapped |-> FALSE, self |-> self]
       ELSE LET old == self.stream.pos
                wr  == mmap_write(self.stream, data)
            IN IF wr.raised
               THEN [kind |-> "raised", mapped |-> TRUE,
                     self |-> [self EXCEPT !.stream = wr.m]]
               ELSE [kind |-> "None", mapped |-> TRUE,
                     self |-> [self EXCEPT
                                 !.stream = mmap_seek(wr.m, old).m]]

\* ELF.write.  kind "None": returned None (written, or unmapped and
\* nothing done); "raised": the seek or the write raised, and the stream
\* stays where the exception left it.
write(self, address, data) ==
    LET offset == vaddr_to_offset(self, address)
    IN IF IsNone(offset)
       THEN [kind |-> "None", mapped |-> FALSE, self |-> self]
       ELSE LET old == self.stream.pos
                sk  == mmap_seek(self.stream, Val(offset))
            IN IF sk.raised
               THEN [kind |-> "raised", mapped |-> TRUE,
                     self |-> [self EXCEPT !.stream = sk.m]]
               ELSE LET wr == mmap_write(sk.m, data)
                    IN IF wr.raised
                       THEN [kind |-> "raised", mapped |-> TRUE,
                             self |-> [self EXCEPT !.stream = wr.m]]
                       ELSE [kind |-> "None", mapped |-> TRUE,
                             self |-> [self EXCEPT
                                         !.stream = mmap_seek(wr.m, old).m]]

\* ---------------------------------------------------------------- state

VARIABLES
    image,    \* the file the constructor is given
    status,   \* "new": not constructed; "loaded"; "raised": __init__ raised
    elf,      \* the ELF object's attributes
    orig,     \* the object as __init__ left it (history)
    lastOp,   \* the last call made and what it returned (history)
    pc,       \* where the thread running the address setter stands
    local,    \* that thread's locals: new and delta
    seen      \* what a reading thread last saw of the object

vars == <<image, status, elf, orig, lastOp, pc, local, seen>>

NoObject ==
    [segments |-> <<>>, sections |-> <<>>, symbols |-> <<>>, plt |-> <<>>,
     got |-> <<>>, address |-> 0, stream |-> [buf |-> <<>>, pos |-> 0]]

NoLocal == [new |-> 0, delta |-> 0]

Init ==
    /\ image \in Images
    /\ status = "new"
    /\ elf = NoObject
    /\ orig = NoObject
    /\ lastOp = [op |-> "none"]
    /\ pc = "idle"
    /\ local = NoLocal
    /\ seen = NoObject

\* ELF(path): the constructor.  Where the parser leaves the stream is the
\* parser's business: any position of the file.
Construct ==
    /\ status = "new"
    /\ \E pos \in 0..Len(image.data) :
         LET r == ELF_init(image, pos)
         IN /\ status' = IF r.raised THEN "raised" ELSE "loaded"
            /\ elf' = IF r.raised THEN NoObject ELSE r.self
            /\ orig' = IF r.raised THEN NoObject ELSE r.self
            /\ lastOp' = [op |-> "init"]
    /\ UNCHANGED <<image, pc, local, seen>>

\* elf.address = new, by the one caller the class is written for.
SetAddress ==
    /\ status = "loaded"
    /\ \E new \in NewBases :
         /\ elf' = address_setter(elf, new)
         /\ lastOp' = [op |-> "address", new |-> new, old |-> elf.address]
    /\ UNCHANGED <<image, status, orig, pc, local, seen>>

\* elf.read(address, count)
Read ==
    /\ status = "loaded"
    /\ \E address \in Addrs, count \in Counts :
         LET r == read(elf, address, count)
         IN /\ elf' = r.self
            /\ lastOp' = [op |-> "read", kind |-> r.kind]
    /\ UNCHANGED <<image, status, orig, pc, local, seen>>

\* elf.write(address, data)
Write ==
    /\ status = "loaded"
    /\ \E address \in Addrs, data \in Strings :
         LET r == write(elf, address, data)
         IN /\ elf' = r.self
            /\ lastOp' = [op |-> "write", kind |-> r.kind,
                          mapped |-> r.mapped]
    /\ UNCHANGED <<image, status, orig, pc, local, seen>>

\* list(elf.search(s, non_writable))
Search ==
    /\ status = "loaded"
    /\ \E s \in Patterns, non_writable \in BOOLEAN :
         LET r == search(elf, s, non_writable)
         IN /\ elf' = r.self
            /\ lastOp' = [op |-> "search", raised |-> r.raised,
                          found |-> r.addrs # <<>>]
    /\ UNCHANGED <<image, status, orig, pc, local, seen>>

Next == Construct \/ SetAddress \/ Read \/ Write \/ Search

Spec == Init /\ [][Next]_vars

\* --------------------------------------------- the setter, with a reader

\* The class takes no lock, and CPython may switch threads between any
\* two statements.  Here one thread runs the setter a statement (a whole
\* for loop) at a time while another reads the object's attributes.

SetterBegin ==
    /\ status = "loaded" /\ pc = "idle"
    /\ \E new \in NewBases :
         local' = [new |-> new, delta |-> setter_delta(elf, new)]
    /\ pc' = "segments"
    /\ UNCHANGED <<image, status, elf, orig, lastOp, seen>>

SetterSegments ==
    /\ pc = "segments"
    /\ elf' = setter_segments(elf, local.delta)
    /\ pc' = "sections"
    /\ UNCHANGED <<image, status, orig, lastOp, local, seen>>

SetterSections ==
    /\ pc = "sections"
    /\ elf' = setter_sections(elf, local.delta)
    /\ pc' = "symbols"
    /\ UNCHANGED <<image, status, orig, lastOp, local, seen>>

SetterSymbols ==
    /\ pc = "symbols"
    /\ elf' = setter_symbols(elf, local.delta)
    /\ pc' = "plt"
    /\ UNCHANGED <<image, status, orig, lastOp, local, seen>>

SetterPlt ==
    /\ pc = "plt"
    /\ elf' = setter_plt(elf, local.delta)
    /\ pc' = "got"
    /\ UNCHANGED <<image, status, orig, lastOp, local, seen>>

SetterGot ==
    /\ pc = "got"
    /\ elf' = setter_got(elf, local.delta)
    /\ pc' = "address"
    /\ UNCHANGED <<image, status, orig, lastOp, local, seen>>

SetterAddress ==
    /\ pc = "address"
    /\ elf' = setter_address(elf, local.delta)
    /\ lastOp' = [op |-> "address", new |-> local.new,
                  old |-> elf.address]
    /\ pc' = "idle"
    /\ local' = NoLocal
    /\ UNCHANGED <<image, status, orig, seen>>

\* The reading thread looks at the object.
Observe ==
    /\ status = "loaded"
    /\ seen' = elf
    /\ UNCHANGED <<image, status, elf, orig, lastOp, pc, local>>

NextThreads ==
    \/ Construct
    \/ SetterBegin \/ SetterSegments \/ SetterSections \/ SetterSymbols
    \/ SetterPlt \/ SetterGot \/ SetterAddress
    \/ Observe

SpecThreads == Init /\ [][NextThreads]_vars

\* ------------------------------------------------------------ properties

Loaded == status = "loaded"

Range(f) == {f[i] : i \in DOMAIN f}

\* a lies inside the memory range of segment seg.
InSegment(seg, a) == seg.p_vaddr <= a /\ a < seg.p_vaddr + seg.p_memsz

\* The file bytes of segment seg in the buffer buf.
Content(buf, seg) == SubSeq(buf, seg.p_offset + 1, seg.p_offset + seg.p_filesz)

\* Pattern s occurs in content c at offset k.
OccursAt(c, s, k) ==
    k >= 0 /\ k + Len(s) <= Len(c) /\ SubSeq(c, k + 1, k + Len(s)) = s

\* Object e is object o with every derived address moved by d.
MovedBy(o, e, d) ==
    /\ Len(e.segments) = Len(o.segments)
    /\ \A i \in 1..Len(o.segments) :
         e.segments[i] = [o.segments[i] EXCEPT !.p_vaddr = @ + d]
    /\ Len(e.sections) = Len(o.sections)
    /\ \A i \in 1..Len(o.sections) :
         e.sections[i] = [o.sections[i] EXCEPT !.sh_addr = @ + d]
    /\ DOMAIN e.symbols = DOMAIN o.symbols
    /\ \A k \in DOMAIN o.symbols : e.symbols[k] = o.symbols[k] + d
    /\ DOMAIN e.plt = DOMAIN o.plt
    /\ \A k \in DOMAIN o.plt : e.plt[k] = o.plt[k] + d
    /\ DOMAIN e.got = DOMAIN o.got
    /\ \A k \in DOMAIN o.got : e.got[k] = o.got[k] + d
    /\ e.address = o.address + d

\* C1 (as claimed): once constructed, and after every address assignment,
\* the base address is the least non-zero segment virtual address.
C1_BaseIsLeastNonzeroVaddr ==
    Loaded =>
      LET nz == {elf.segments[i].p_vaddr : i \in 1..Len(elf.segments)} \ {0}
      IN nz # {} /\ \A v \in nz : elf.address <= v
                 /\ elf.address \in nz

\* C2 (as claimed): whatever a reader sees of the object while the setter
\* runs is the constructed object moved as a whole by one delta: segments,
\* sections, symbols, PLT, GOT and base address all at the old base or all
\* at the new one.
C2_ReaderSeesOneBase ==
    seen # NoObject => MovedBy(orig, seen, seen.address - orig.address)

\* The scenario of C3: lowest segment at 0x400000, main at 0x400500.
ImgScenario ==
    [name |-> "scenario",
     data |-> <<1, 0, 1>>,
     segments |-> <<Seg(0, 3, 4 * 16^5, 3, 5)>>,
     sections |-> <<SecNull, SecPlt, SecRelPlt, SecDynsym,
                    Sec(".symtab", "SYMTAB", 0, 0, 0, 1, <<>>,
                        <<Sym("main", 4 * 16^5 + 5 * 16^2)>>)>>]

ScenarioRebased ==
    LET e == ELF_init(ImgScenario, 0).self
        r == address_setter(e, 5 * 16^5)
    IN /\ e.address = 4 * 16^5
       /\ e.symbols["main"] = 4 * 16^5 + 5 * 16^2
       /\ r.symbols["main"] = 5 * 16^5 + 5 * 16^2
       /\ r.address = 5 * 16^5

NoPltOrNoRelPlt(img) ==
    \/ \A i \in 1..Len(img.sections) : img.sections[i].name # ".plt"
    \/ \A i, j \in 1..Len(img.sections) :
         ~ /\ img.sections[i].name = ".plt"
           /\ img.sections[j].type = "REL"
           /\ img.sections[j].sh_info = i - 1

\* C4 (as claimed): a file without .plt, or without a relocation section
\* for it, constructs without raising and has empty plt and got.
C4_NoPltLoadsWithEmptyMaps ==
    (status # "new" /\ NoPltOrNoRelPlt(image)) =>
      /\ status = "loaded"
      /\ elf.plt = <<>>
      /\ elf.got = <<>>

\* C5 (as claimed): an address inside a segment's memory range survives
\* the trip to a file offset and back.
C5_RoundTrip ==
    Loaded =>
      \A a \in Addrs :
        (\E i \in 1..Len(elf.segments) : InSegment(elf.segments[i], a)) =>
          LET o == vaddr_to_offset(elf, a)
          IN ~IsNone(o) /\ offset_to_vaddr(elf, Val(o)) = Some(a)

\* The relocation section of the .plt of a file that has both, its symbol
\* table, and the .plt section.
PltOf(img) ==
    img.sections[CHOOSE i \in 1..Len(img.sections) :
                   img.sections[i].name = ".plt"]
RelPltOf(img) ==
    img.sections[CHOOSE j \in 1..Len(img.sections) :
                   /\ img.sections[j].type = "REL"
                   /\ \E i \in 1..Len(img.sections) :
                        /\ img.sections[i].name = ".plt"
                        /\ img.sections[j].sh_info = i - 1]
RelName(img, rel) ==
    img.sections[RelPltOf(img).sh_link + 1].symbols[rel.r_info_sym + 1].name

\* C6 (as claimed): right after construction, every relocation of the
\* PLT's relocation section has got[name] = its offset and plt[name] =
\* .plt address + (its position in the table) * .plt alignment.
C6_PltByRelocationIndex ==
    (Loaded /\ lastOp.op = "init") =>
      LET rels == RelPltOf(image).relocs
      IN \A i \in 1..Len(rels) :
           LET name == RelName(image, rels[i])
           IN /\ name \in DOMAIN elf.got /\ name \in DOMAIN elf.plt
              /\ elf.got[name] = rels[i].r_offset
              /\ elf.plt[name] = PltOf(image).sh_addr
                                 + (i - 1) * PltOf(image).sh_addralign

\* C6 (amended): right after construction, every relocation of the PLT's
\* relocation section whose symbol name no later relocation of the table
\* names has got[name] = its offset and plt[name] = .plt address + (the
\* index of the symbol it references) * .plt alignment; plt and got have
\* no other keys.
C6_PltBySymbolIndex ==
    (Loaded /\ lastOp.op = "init") =>
      LET rels == RelPltOf(image).relocs
      IN /\ \A i \in 1..Len(rels) :
              LET name == RelName(image, rels[i])
              IN (\A j \in (i + 1)..Len(rels) :
                    RelName(image, rels[j]) # name) =>
                   /\ name \in DOMAIN elf.got /\ name \in DOMAIN elf.plt
                   /\ elf.got[name] = rels[i].r_offset
                   /\ elf.plt[name] = PltOf(image).sh_addr
                        + rels[i].r_info_sym * PltOf(image).sh_addralign
         /\ DOMAIN elf.got = {RelName(image, rels[i]) : i \in 1..Len(rels)}
         /\ DOMAIN elf.plt = DOMAIN elf.got

C6_Witness ==
    /\ Loaded /\ lastOp.op = "init"
    /\ LET rels == RelPltOf(image).relocs
       IN /\ \E i \in 1..Len(rels) : rels[i].r_info_sym # i - 1
          /\ \E i, j \in 1..Len(rels) :
               i < j /\ RelName(image, rels[i]) = RelName(image, rels[j])

\* C7: in every state the object reaches, a write that finds the address
\* mapped and returns is followed by a read of the same address and length
\* that returns the data written.
C7_ReadAfterWrite ==
    Loaded =>
      \A a \in Addrs, d \in Strings :
        LET w == write(elf, a, d)
        IN (w.mapped /\ w.kind = "None") =>
             LET r == read(w.self, a, Len(d))
             IN r.kind = "bytes" /\ r.data = d

C7_Witness ==
    /\ Loaded
    /\ lastOp.op = "write" /\ lastOp.mapped /\ lastOp.kind = "None"
    /\ elf.address # orig.address
    /\ elf.stream.buf # orig.stream.buf

\* C8: after any address assignments ending with elf.address = b2, the
\* symbol map is the one a single assignment of b2 to the object as
\* constructed gives.
C8_RebaseComposes ==
    (Loaded /\ lastOp.op = "address") =>
      elf.symbols = address_setter(orig, lastOp.new).symbols

C8_Witness ==
    /\ Loaded
    /\ lastOp.op = "address"
    /\ lastOp.old # orig.address
    /\ lastOp.new # lastOp.old
    /\ lastOp.new # orig.address
    /\ DOMAIN elf.symbols # {}

\* The addresses at which pattern s occurs in the segments search looks at.
Occurrences(e, s, non_writable) ==
    {e.segments[q[1]].p_vaddr + q[2] :
       q \in {p \in (1..Len(e.segments)) \X (0..Len(e.stream.buf)) :
                /\ non_writable \/ IsWritable(e.segments[p[1]])
                /\ OccursAt(Content(e.stream.buf, e.segments[p[1]]),
                            s, p[2])}}

\* C9: in every state the object reaches, search yields exactly the
\* addresses segment.vaddr + k of the offsets k at which the pattern
\* occurs in the current bytes of a searched segment, so none once writes
\* have removed every occurrence.
C9_SearchFollowsBuffer ==
    Loaded =>
      \A s \in Patterns, non_writable \in BOOLEAN :
        LET r == search(elf, s, non_writable)
        IN /\ ~r.raised
           /\ Range(r.addrs) = Occurrences(elf, s, non_writable)
           /\ (Occurrences(elf, s, non_writable) = {} => r.addrs = <<>>)

C9_Witness ==
    /\ Loaded
    /\ lastOp.op = "write" /\ lastOp.mapped /\ lastOp.kind = "None"
    /\ \E s \in Patterns :
         /\ search(orig, s, FALSE).addrs # <<>>
         /\ Occurrences(elf, s, FALSE) = {}
         /\ search(elf, s, FALSE).addrs = <<>>

\* C10 (as claimed): a read changes nothing (stream position, buffer,
\* maps), returns None at an unmapped address, and at a mapped address
\* returns exactly count bytes, the buffer's from the address's offset on.
C10_ReadExactLength ==
    Loaded =>
      \A a \in Addrs, n \in Counts :
        LET o == vaddr_to_offset(elf, a)
            r == read(elf, a, n)
        IN /\ r.self = elf
           /\ IsNone(o) => r.kind = "None"
           /\ ~IsNone(o) =>
                /\ r.kind = "bytes"
                /\ Len(r.data) = n
                /\ \A i \in 1..n : r.data[i] = elf.stream.buf[Val(o) + i]

\* C10 (amended): a read changes nothing, returns None at an unmapped
\* address, and at a mapped address whose offset o is within the buffer
\* returns the buffer's bytes from o on, count of them when o + count is
\* within the buffer and otherwise only those up to the buffer's end; when
\* o is past the buffer's end the read raises.
C10_ReadBoundedByBuffer ==
    Loaded =>
      \A a \in Addrs, n \in Counts :
        LET o    == vaddr_to_offset(elf, a)
            r    == read(elf, a, n)
            size == Len(elf.stream.buf)
        IN /\ r.self = elf
           /\ IsNone(o) => r.kind = "None"
           /\ (~IsNone(o) /\ Val(o) + n <= size) =>
                /\ r.kind = "bytes"
                /\ Len(r.data) = n
                /\ \A i \in 1..n : r.data[i] = elf.stream.buf[Val(o) + i]
           /\ (~IsNone(o) /\ Val(o) <= size /\ size < Val(o) + n) =>
                /\ r.kind = "bytes"
                /\ Len(r.data) = size - Val(o)
                /\ \A i \in 1..(size - Val(o)) :
                     r.data[i] = elf.stream.buf[Val(o) + i]
           /\ (~IsNone(o) /\ Val(o) > size) => r.kind = "raised"

C10_Witness ==
    /\ Loaded
    /\ lastOp.op = "read" /\ lastOp.kind = "bytes"
    /\ elf.stream.pos > 0
    /\ elf.stream.buf # orig.stream.buf
    /\ elf.address # orig.address
    /\ \E a \in Addrs :
         /\ read(elf, a, MaxLen).kind = "bytes"
         /\ Len(read(elf, a, MaxLen).data) = MaxLen

====
